---- MODULE Spec2Model ----
(***************************************************************************)
(* Model of the apex-stack core: the transactional user registration       *)
(* workflow (user row + welcome-email job in one transaction) and the todo *)
(* creation workflow, over a PostgreSQL database under read-committed      *)
(* isolation.  Single statements run on the pool and commit on their own;  *)
(* UserService::register runs its two writes inside one transaction.       *)
(* The storage engine is assumed to answer single statements; the faults   *)
(* modelled are the ones of the registration workflow: a failing enqueue,  *)
(* a failing commit and an abort of the request between two awaits.        *)
(***************************************************************************)
EXTENDS Integers, Sequences, FiniteSets, Bags, TLC

\* ---------------------------------------------------------------- bounds
MaxUsers == 2
MaxTodos == 2
MaxClock == 1

\* the requests in flight: two workers, each serving one call at a time
Procs    == {1, 2}
UserIds  == 1..MaxUsers
Names    == {"n1", "n2"}
\* the CreateUserInput values tried: one email under two names, and another email
RegInputs == {[email |-> "e1", name |-> "n1"], [email |-> "e1", name |-> "n2"],
              [email |-> "e2", name |-> "n1"]}
Titles   == {"t1", "t2"}
NoDesc   == "none"
Descs    == {NoDesc, "d1"}

VARIABLES
  users,     \* committed rows of table users
  jobs,      \* committed rows of the job queue (mq_msgs/mq_payloads), a bag
  todos,     \* committed rows of table todos
  clock,     \* OffsetDateTime::now_utc()
  nextUid,   \* supply of Uuid::new_v4() for users
  nextTid,   \* supply of Uuid::new_v4() for todos
  pc,        \* position of each UserService::register call
  input,     \* CreateUserInput of each register call
  tx,        \* the transaction of each register call: open flag, pending writes
  user,      \* local `user` of each register call
  ret,       \* result of each register call
  tpc,       \* position of each TodoService::create call
  tinput,    \* CreateTodoInput of each create call
  tret,      \* result of each create call
  resp,      \* the last single-statement call and what it returned
  upc,       \* position of each TodoService::update call
  uinput,    \* id and UpdateTodoInput of each update call
  existing,  \* local `existing` of each update call
  uret,      \* result of each update call
  unow       \* the clock reading each repository write is holding

dbVars   == <<users, jobs, todos>>
envVars  == <<clock, nextUid, nextTid>>
regVars  == <<pc, input, tx, user, ret>>
todoVars == <<tpc, tinput, tret>>
callVars == <<resp, upc, uinput, existing, uret, unow>>
vars     == <<users, jobs, todos, clock, nextUid, nextTid,
              pc, input, tx, user, ret, tpc, tinput, tret,
              resp, upc, uinput, existing, uret, unow>>

\* ------------------------------------------------------------ data model
NoUser   == [id |-> 0, email |-> "", name |-> "", created_at |-> 0, updated_at |-> 0]
NoTodo   == [id |-> 0, user_id |-> 0, title |-> "", description |-> NoDesc,
             status |-> "", created_at |-> 0, updated_at |-> 0]
NoInput  == [email |-> "", name |-> ""]
NoTInput == [user_id |-> 0, title |-> "", description |-> NoDesc]
NoTx     == [open |-> FALSE, users |-> {}, jobs |-> EmptyBag]
NoRet    == [kind |-> "None", val |-> "", row |-> NoUser]
NoTRet   == [kind |-> "None", val |-> 0, row |-> NoTodo]
NoTitle  == "none"
NoStatus == "none"
NoUInput == [id |-> 0, title |-> NoTitle, description |-> NoDesc, status |-> NoStatus]
NoResp   == [op |-> "none", id |-> 0, arg |-> "", kind |-> "None",
             row |-> NoTodo, rows |-> <<>>, flag |-> FALSE]

\* TodoStatus::as_str / TodoStatus::from_str and the row -> entity conversion
AsStr(status) ==
  CASE status = "Pending"    -> "pending"
    [] status = "InProgress" -> "in_progress"
    [] status = "Completed"  -> "completed"

FromStr(s) ==
  CASE s = "pending"     -> "Pending"
    [] s = "in_progress" -> "InProgress"
    [] s = "completed"   -> "Completed"
    [] OTHER             -> "Invalid"

TodoFromRow(row) ==
  [row EXCEPT !.status = IF FromStr(row.status) = "Invalid" THEN "Pending"
                         ELSE FromStr(row.status)]

\* payload of the welcome-email job, on the channel of send_welcome_email
WelcomeEmailArgs(user_id, email, name) ==
  [channel |-> "emails", user_id |-> user_id, email |-> email, name |-> name]

\* --------------------------------------------------------- repositories
FindByEmail(tbl, email) == {u \in tbl : u.email = email}
FindById(tbl, id)       == {u \in tbl : u.id = id}

\* OffsetDateTime::now_utc(): the clock read by a write, never behind an
\* earlier reading
Now == clock..MaxClock

\* the unique index on users.email, as seen by an INSERT of transaction p:
\* a pending row of another open transaction makes the INSERT wait,
\* a committed row makes it fail
EmailLocked(p, email) ==
  \E q \in Procs \ {p} : \E u \in tx[q].users : u.email = email
UniqueViolation(email) == FindByEmail(users, email) # {}

\* the foreign key todos.user_id -> users.id
ForeignKeyViolation(user_id) == FindById(users, user_id) = {}

Init ==
  /\ users = {}
  /\ jobs = EmptyBag
  /\ todos = {}
  /\ clock = 0
  /\ nextUid = 1
  /\ nextTid = 1
  /\ pc = [p \in Procs |-> "idle"]
  /\ input = [p \in Procs |-> NoInput]
  /\ tx = [p \in Procs |-> NoTx]
  /\ user = [p \in Procs |-> NoUser]
  /\ ret = [p \in Procs |-> NoRet]
  /\ tpc = [p \in Procs |-> "idle"]
  /\ tinput = [p \in Procs |-> NoTInput]
  /\ tret = [p \in Procs |-> NoTRet]
  /\ resp = NoResp
  /\ upc = [p \in Procs |-> "idle"]
  /\ uinput = [p \in Procs |-> NoUInput]
  /\ existing = [p \in Procs |-> NoTodo]
  /\ uret = [p \in Procs |-> NoTRet]
  /\ unow = [p \in Procs |-> 0]

\* ------------------------------------------------ UserService::register
\* lines 26-35: the call starts with the find_by_email pre-check on the pool
RegisterCallNoPreCheck(p, email, name) ==
  /\ pc[p] = "idle"
  /\ nextUid + Cardinality({q \in Procs : pc[q] \in {"begin", "create"}}) <= MaxUsers
  /\ input' = [input EXCEPT ![p] = [email |-> email, name |-> name]]
  /\ pc' = [pc EXCEPT ![p] = "begin"]
  /\ UNCHANGED <<dbVars, envVars, tx, user, ret, todoVars, callVars>>

RegisterCall(p, email, name) ==
  /\ pc[p] = "idle"
  /\ nextUid + Cardinality({q \in Procs : pc[q] \in {"begin", "create"}}) <= MaxUsers
  /\ input' = [input EXCEPT ![p] = [email |-> email, name |-> name]]
  /\ IF FindByEmail(users, email) # {}
       THEN /\ pc' = [pc EXCEPT ![p] = "done"]
            /\ ret' = [ret EXCEPT ![p] = [kind |-> "EmailExists", val |-> email, row |-> NoUser]]
       ELSE /\ pc' = [pc EXCEPT ![p] = "begin"]
            /\ ret' = ret
  /\ UNCHANGED <<dbVars, envVars, tx, user, todoVars, callVars>>

\* line 38: pool.begin()
RegisterBegin(p) ==
  /\ pc[p] = "begin"
  /\ tx' = [tx EXCEPT ![p] = [open |-> TRUE, users |-> {}, jobs |-> EmptyBag]]
  /\ pc' = [pc EXCEPT ![p] = "create"]
  /\ UNCHANGED <<dbVars, envVars, input, user, ret, todoVars, callVars>>

\* UserRepository::create (user.rs 35-70): the row of INSERT .. RETURNING *
UserCreateRow(id, email, name, now) ==
  [id |-> id, email |-> email, name |-> name, created_at |-> now, updated_at |-> now]

\* line 41: UserRepository::create(&mut *tx, ..)?  An error drops tx: rollback.
RegisterInsertUnchecked(p) ==
  /\ pc[p] = "create"
  /\ \E now \in Now :
       LET row == UserCreateRow(nextUid, input[p].email, input[p].name, now)
       IN /\ clock' = now
          /\ tx' = [tx EXCEPT ![p].users = @ \cup {row}]
          /\ user' = [user EXCEPT ![p] = row]
          /\ pc' = [pc EXCEPT ![p] = "enqueue"]
          /\ ret' = ret
  /\ nextUid' = nextUid + 1
  /\ UNCHANGED <<dbVars, nextTid, input, todoVars, callVars>>

RegisterInsertOnPool(p) ==
  /\ pc[p] = "create"
  /\ ~EmailLocked(p, input[p].email)
  /\ \E now \in Now :
       LET row == UserCreateRow(nextUid, input[p].email, input[p].name, now)
       IN /\ clock' = now
          /\ IF UniqueViolation(input[p].email)
               THEN /\ tx' = [tx EXCEPT ![p] = NoTx]
                    /\ pc' = [pc EXCEPT ![p] = "done"]
                    /\ ret' = [ret EXCEPT ![p] = [kind |-> "Domain", val |-> "UniqueViolation", row |-> NoUser]]
                    /\ UNCHANGED <<user, users>>
               ELSE /\ users' = users \cup {row}
                    /\ user' = [user EXCEPT ![p] = row]
                    /\ pc' = [pc EXCEPT ![p] = "enqueue"]
                    /\ UNCHANGED <<tx, ret>>
  /\ nextUid' = nextUid + 1
  /\ UNCHANGED <<jobs, todos, nextTid, input, todoVars, callVars>>

RegisterInsert(p) ==
  /\ pc[p] = "create"
  /\ ~EmailLocked(p, input[p].email)
  /\ \E now \in Now :
       LET row == UserCreateRow(nextUid, input[p].email, input[p].name, now)
       IN /\ clock' = now
          /\ IF UniqueViolation(input[p].email)
               THEN /\ tx' = [tx EXCEPT ![p] = NoTx]
                    /\ pc' = [pc EXCEPT ![p] = "done"]
                    /\ ret' = [ret EXCEPT ![p] = [kind |-> "Domain", val |-> "UniqueViolation", row |-> NoUser]]
                    /\ user' = user
               ELSE /\ tx' = [tx EXCEPT ![p].users = @ \cup {row}]
                    /\ user' = [user EXCEPT ![p] = row]
                    /\ pc' = [pc EXCEPT ![p] = "enqueue"]
                    /\ ret' = ret
  /\ nextUid' = nextUid + 1
  /\ UNCHANGED <<dbVars, nextTid, input, todoVars, callVars>>

\* lines 44-51: UserJobs::enqueue_welcome_email(&mut tx, user.id, user.email,
\* user.name), errors mapped to UserFeatureError::Queue; an error drops tx
RegisterEnqueueSwapped(p) ==
  /\ pc[p] = "enqueue"
  /\ \E ok \in BOOLEAN :
       IF ok
         THEN /\ tx' = [tx EXCEPT ![p].jobs =
                          @ (+) SetToBag({WelcomeEmailArgs(user[p].id, user[p].name, user[p].email)})]
              /\ pc' = [pc EXCEPT ![p] = "commit"]
              /\ ret' = ret
         ELSE /\ tx' = [tx EXCEPT ![p] = NoTx]
              /\ pc' = [pc EXCEPT ![p] = "done"]
              /\ ret' = [ret EXCEPT ![p] = [kind |-> "Queue", val |-> "spawn failed", row |-> NoUser]]
  /\ UNCHANGED <<dbVars, envVars, input, user, todoVars, callVars>>

RegisterEnqueueKeepsUser(p) ==
  /\ pc[p] = "enqueue"
  /\ \E ok \in BOOLEAN :
       IF ok
         THEN /\ tx' = [tx EXCEPT ![p].jobs =
                          @ (+) SetToBag({WelcomeEmailArgs(user[p].id, user[p].email, user[p].name)})]
              /\ pc' = [pc EXCEPT ![p] = "commit"]
              /\ ret' = ret
              /\ users' = users
         ELSE /\ users' = users \cup tx[p].users
              /\ tx' = [tx EXCEPT ![p] = NoTx]
              /\ pc' = [pc EXCEPT ![p] = "done"]
              /\ ret' = [ret EXCEPT ![p] = [kind |-> "Queue", val |-> "spawn failed", row |-> NoUser]]
  /\ UNCHANGED <<jobs, todos, envVars, input, user, todoVars, callVars>>

RegisterEnqueue(p) ==
  /\ pc[p] = "enqueue"
  /\ \E ok \in BOOLEAN :
       IF ok
         THEN /\ tx' = [tx EXCEPT ![p].jobs =
                          @ (+) SetToBag({WelcomeEmailArgs(user[p].id, user[p].email, user[p].name)})]
              /\ pc' = [pc EXCEPT ![p] = "commit"]
              /\ ret' = ret
         ELSE /\ tx' = [tx EXCEPT ![p] = NoTx]
              /\ pc' = [pc EXCEPT ![p] = "done"]
              /\ ret' = [ret EXCEPT ![p] = [kind |-> "Queue", val |-> "spawn failed", row |-> NoUser]]
  /\ UNCHANGED <<dbVars, envVars, input, user, todoVars, callVars>>

RegisterCommitFailureKeepsTx(p) ==
  /\ pc[p] = "commit"
  /\ \E ok \in BOOLEAN :
       IF ok
         THEN /\ users' = users \cup tx[p].users
              /\ jobs' = jobs (+) tx[p].jobs
              /\ ret' = [ret EXCEPT ![p] = [kind |-> "Ok", val |-> "", row |-> user[p]]]
              /\ tx' = [tx EXCEPT ![p] = NoTx]
         ELSE /\ UNCHANGED <<users, jobs, tx>>
              /\ ret' = [ret EXCEPT ![p] = [kind |-> "Domain", val |-> "CommitFailed", row |-> NoUser]]
  /\ pc' = [pc EXCEPT ![p] = "done"]
  /\ UNCHANGED <<todos, envVars, input, user, todoVars, callVars>>

\* lines 54-56: tx.commit(), then Ok(user); a failed commit leaves nothing
RegisterCommit(p) ==
  /\ pc[p] = "commit"
  /\ \E ok \in BOOLEAN :
       IF ok
         THEN /\ users' = users \cup tx[p].users
              /\ jobs' = jobs (+) tx[p].jobs
              /\ ret' = [ret EXCEPT ![p] = [kind |-> "Ok", val |-> "", row |-> user[p]]]
         ELSE /\ UNCHANGED <<users, jobs>>
              /\ ret' = [ret EXCEPT ![p] = [kind |-> "Domain", val |-> "CommitFailed", row |-> NoUser]]
  /\ tx' = [tx EXCEPT ![p] = NoTx]
  /\ pc' = [pc EXCEPT ![p] = "done"]
  /\ UNCHANGED <<todos, envVars, input, user, todoVars, callVars>>

\* the request is dropped at an await (crash, connection loss, cancellation):
\* the Transaction is dropped without commit, which rolls it back
RegisterAbort(p) ==
  /\ pc[p] \in {"begin", "create", "enqueue", "commit"}
  /\ tx' = [tx EXCEPT ![p] = NoTx]
  /\ pc' = [pc EXCEPT ![p] = "done"]
  /\ ret' = [ret EXCEPT ![p] = [kind |-> "Aborted", val |-> "", row |-> NoUser]]
  /\ UNCHANGED <<dbVars, envVars, input, user, todoVars, callVars>>

\* the caller takes the result; the worker serves the next request
RegisterReturn(p) ==
  /\ pc[p] = "done"
  /\ pc' = [pc EXCEPT ![p] = "idle"]
  /\ input' = [input EXCEPT ![p] = NoInput]
  /\ user' = [user EXCEPT ![p] = NoUser]
  /\ ret' = [ret EXCEPT ![p] = NoRet]
  /\ UNCHANGED <<dbVars, envVars, tx, todoVars, callVars>>

\* ---------------------------------- UserService::update / ::delete (pool)
NoName == "none"

\* UserRepository::update_name: UPDATE users SET name, updated_at WHERE id
UpdateNameOfAll(tbl, id, name, now) ==
  {IF FindById(tbl, id) # {} THEN [u EXCEPT !.name = name, !.updated_at = now] ELSE u
     : u \in tbl}

UpdateName(tbl, id, name, now) ==
  {IF u.id = id THEN [u EXCEPT !.name = name, !.updated_at = now] ELSE u : u \in tbl}

\* service.rs 88-104: with a name, one UPDATE; without, a plain get
UserUpdateRowsTouching(id, name) ==
  \E now \in Now :
    /\ clock' = now
    /\ users' = IF name # NoName
                  THEN UpdateName(users, id, name, now)
                  ELSE {IF u.id = id THEN [u EXCEPT !.updated_at = now] ELSE u : u \in users}

UserUpdateRows(id, name) ==
  IF name # NoName
    THEN \E now \in Now :
           /\ clock' = now
           /\ users' = UpdateName(users, id, name, now)
    ELSE UNCHANGED <<users, clock>>

\* the call, its result not looked at
UserUpdate(id, name) ==
  /\ UserUpdateRows(id, name)
  /\ UNCHANGED <<jobs, todos, nextUid, nextTid, regVars, todoVars, callVars>>

\* service.rs 106-112 / UserRepository::delete: DELETE FROM users WHERE id.
\* The referential action of todos.user_id is the schema's: for a user who
\* owns todos the statement either fails (restrict) or takes the todos
\* along (cascade).
UserDeleteRows(id, kind) ==
  \/ /\ kind = "Ok"
     /\ users' = users \ FindById(users, id)
     /\ todos' = {t \in todos : t.user_id # id}
  \/ /\ kind = "Domain"
     /\ \E t \in todos : t.user_id = id
     /\ UNCHANGED <<users, todos>>

\* the call, its result not looked at
UserDelete(id) ==
  /\ \E kind \in {"Ok", "Domain"} : UserDeleteRows(id, kind)
  /\ UNCHANGED <<jobs, envVars, regVars, todoVars, callVars>>

\* -------------------------------------------------- TodoService::create
\* service.rs 26-33: the call starts with the find_by_id pre-check
TodoCreateCallUnchecked(p, user_id, title, description) ==
  /\ tpc[p] = "idle"
  /\ nextTid + Cardinality({q \in Procs : tpc[q] = "insert"}) <= MaxTodos
  /\ tinput' = [tinput EXCEPT ![p] =
                  [user_id |-> user_id, title |-> title, description |-> description]]
  /\ tpc' = [tpc EXCEPT ![p] = "insert"]
  /\ tret' = tret
  /\ UNCHANGED <<dbVars, envVars, regVars, callVars>>

TodoCreateCall(p, user_id, title, description) ==
  /\ tpc[p] = "idle"
  /\ nextTid + Cardinality({q \in Procs : tpc[q] = "insert"}) <= MaxTodos
  /\ tinput' = [tinput EXCEPT ![p] =
                  [user_id |-> user_id, title |-> title, description |-> description]]
  /\ IF FindById(users, user_id) = {}
       THEN /\ tpc' = [tpc EXCEPT ![p] = "done"]
            /\ tret' = [tret EXCEPT ![p] = [kind |-> "UserNotFound", val |-> user_id, row |-> NoTodo]]
       ELSE /\ tpc' = [tpc EXCEPT ![p] = "insert"]
            /\ tret' = tret
  /\ UNCHANGED <<dbVars, envVars, regVars, callVars>>

\* TodoRepository::create (todo.rs 98-135): INSERT .. RETURNING *, the status
\* column written as TodoStatus::Pending.as_str(), the row read back as Todo
TodoCreateRow(id, user_id, title, description, now) ==
  [id |-> id, user_id |-> user_id, title |-> title, description |-> description,
   status |-> AsStr("Pending"), created_at |-> now, updated_at |-> now]

\* service.rs 35-43: TodoRepository::create(..)?, then Ok(todo)
TodoCreateInsertInProgress(p) ==
  /\ tpc[p] = "insert"
  /\ \E now \in Now :
       LET row == [TodoCreateRow(nextTid, tinput[p].user_id, tinput[p].title,
                                 tinput[p].description, now)
                     EXCEPT !.status = AsStr("InProgress")]
       IN /\ clock' = now
          /\ IF ForeignKeyViolation(tinput[p].user_id)
               THEN /\ todos' = todos
                    /\ tret' = [tret EXCEPT ![p] = [kind |-> "Domain", val |-> tinput[p].user_id, row |-> NoTodo]]
               ELSE /\ todos' = todos \cup {row}
                    /\ tret' = [tret EXCEPT ![p] = [kind |-> "Ok", val |-> 0, row |-> TodoFromRow(row)]]
  /\ tpc' = [tpc EXCEPT ![p] = "done"]
  /\ nextTid' = nextTid + 1
  /\ UNCHANGED <<users, jobs, nextUid, regVars, tinput, callVars>>

TodoCreateInsert(p) ==
  /\ tpc[p] = "insert"
  /\ \E now \in Now :
       LET row == TodoCreateRow(nextTid, tinput[p].user_id, tinput[p].title,
                                tinput[p].description, now)
       IN /\ clock' = now
          /\ IF ForeignKeyViolation(tinput[p].user_id)
               THEN /\ todos' = todos
                    /\ tret' = [tret EXCEPT ![p] = [kind |-> "Domain", val |-> tinput[p].user_id, row |-> NoTodo]]
               ELSE /\ todos' = todos \cup {row}
                    /\ tret' = [tret EXCEPT ![p] = [kind |-> "Ok", val |-> 0, row |-> TodoFromRow(row)]]
  /\ tpc' = [tpc EXCEPT ![p] = "done"]
  /\ nextTid' = nextTid + 1
  /\ UNCHANGED <<users, jobs, nextUid, regVars, tinput, callVars>>

\* the caller takes the result; the worker serves the next request
TodoCreateReturn(p) ==
  /\ tpc[p] = "done"
  /\ tpc' = [tpc EXCEPT ![p] = "idle"]
  /\ tinput' = [tinput EXCEPT ![p] = NoTInput]
  /\ tret' = [tret EXCEPT ![p] = NoTRet]
  /\ UNCHANGED <<dbVars, envVars, regVars, callVars>>

\* ------------------------------------- TodoRepository writes (todo.rs)
Statuses == {"Pending", "InProgress", "Completed"}

\* update_status: UPDATE todos SET status, updated_at WHERE id RETURNING *
UpdateStatusOfOwner(tbl, id, status, now) ==
  {IF \E r \in FindById(tbl, id) : r.user_id = t.user_id
     THEN [t EXCEPT !.status = AsStr(status), !.updated_at = now]
     ELSE t
     : t \in tbl}

UpdateStatus(tbl, id, status, now) ==
  {IF t.id = id THEN [t EXCEPT !.status = AsStr(status), !.updated_at = now] ELSE t
     : t \in tbl}

\* update_content: UPDATE todos SET title, description, updated_at WHERE id
\* RETURNING *; both columns replaced wholesale
UpdateContentOrInsert(tbl, id, title, description, now) ==
  IF FindById(tbl, id) = {}
    THEN tbl \cup {TodoCreateRow(id, 1, title, description, now)}
    ELSE {IF t.id = id
            THEN [t EXCEPT !.title = title, !.description = description, !.updated_at = now]
            ELSE t
            : t \in tbl}

UpdateContent(tbl, id, title, description, now) ==
  {IF t.id = id
     THEN [t EXCEPT !.title = title, !.description = description, !.updated_at = now]
     ELSE t
     : t \in tbl}

\* delete: DELETE FROM todos WHERE id
DeleteByIdKeepsRow(tbl, id) == tbl

DeleteById(tbl, id) == tbl \ FindById(tbl, id)

\* the stored row of a todo id, NoTodo when there is none
StoredTodo(tbl, id) ==
  IF FindById(tbl, id) = {} THEN NoTodo ELSE CHOOSE t \in FindById(tbl, id) : TRUE

\* fetch_optional(..).map(Into::into).ok_or(NotFound(id)) on a todos table
TodoOrNotFound(tbl, id) ==
  IF FindById(tbl, id) = {}
    THEN [kind |-> "NotFound", val |-> id, row |-> NoTodo]
    ELSE [kind |-> "Ok", val |-> 0,
          row |-> TodoFromRow(CHOOSE t \in FindById(tbl, id) : TRUE)]

\* a call is served once the results of the earlier ones have been taken
Quiet == resp = NoResp /\ \A p \in Procs : upc[p] # "done"

\* a caller holding the answer of a list call may make that call again
ReadyFor(op) == (resp = NoResp \/ resp.op = op) /\ \A p \in Procs : upc[p] # "done"

\* -------------------------------------------------- TodoService::update
\* service.rs 74-98: get the existing todo, then pick the one write to make
TodoUpdateCallAlwaysWrites(p, id, title, description, status) ==
  /\ Quiet
  /\ upc[p] = "idle"
  /\ uinput' = [uinput EXCEPT ![p] =
                  [id |-> id, title |-> title, description |-> description,
                   status |-> status]]
  /\ LET got == TodoOrNotFound(todos, id)
     IN IF got.kind = "NotFound"
          THEN /\ upc' = [upc EXCEPT ![p] = "done"]
               /\ uret' = [uret EXCEPT ![p] = got]
               /\ existing' = existing
          ELSE /\ existing' = [existing EXCEPT ![p] = got.row]
               /\ IF status # NoStatus
                    THEN upc' = [upc EXCEPT ![p] = "status"] /\ uret' = uret
                    ELSE IF title # NoTitle \/ description # NoDesc
                      THEN upc' = [upc EXCEPT ![p] = "content"] /\ uret' = uret
                      ELSE /\ upc' = [upc EXCEPT ![p] = "done"]
                           /\ uret' = [uret EXCEPT ![p] = got]
  /\ UNCHANGED <<dbVars, envVars, regVars, todoVars, resp, unow>>

TodoUpdateCallStatusOrContent(p, id, title, description, status) ==
  /\ Quiet
  /\ upc[p] = "idle"
  /\ uinput' = [uinput EXCEPT ![p] =
                  [id |-> id, title |-> title, description |-> description,
                   status |-> status]]
  /\ LET got == TodoOrNotFound(todos, id)
     IN IF got.kind = "NotFound"
          THEN /\ upc' = [upc EXCEPT ![p] = "done"]
               /\ uret' = [uret EXCEPT ![p] = got]
               /\ existing' = existing
          ELSE /\ existing' = [existing EXCEPT ![p] = got.row]
               /\ IF status # NoStatus /\ status # got.row.status
                    THEN upc' = [upc EXCEPT ![p] = "status"] /\ uret' = uret
                    ELSE IF status = NoStatus /\ (title # NoTitle \/ description # NoDesc)
                      THEN upc' = [upc EXCEPT ![p] = "content"] /\ uret' = uret
                      ELSE /\ upc' = [upc EXCEPT ![p] = "done"]
                           /\ uret' = [uret EXCEPT ![p] = got]
  /\ UNCHANGED <<dbVars, envVars, regVars, todoVars, resp, unow>>

TodoUpdateCallCompletedIsFinal(p, id, title, description, status) ==
  /\ Quiet
  /\ upc[p] = "idle"
  /\ uinput' = [uinput EXCEPT ![p] =
                  [id |-> id, title |-> title, description |-> description,
                   status |-> status]]
  /\ LET got == TodoOrNotFound(todos, id)
     IN IF got.kind = "NotFound"
          THEN /\ upc' = [upc EXCEPT ![p] = "done"]
               /\ uret' = [uret EXCEPT ![p] = got]
               /\ existing' = existing
          ELSE /\ existing' = [existing EXCEPT ![p] = got.row]
               /\ IF /\ status # NoStatus /\ status # got.row.status
                     /\ got.row.status # "Completed"
                    THEN upc' = [upc EXCEPT ![p] = "status"] /\ uret' = uret
                    ELSE IF title # NoTitle \/ description # NoDesc
                      THEN upc' = [upc EXCEPT ![p] = "content"] /\ uret' = uret
                      ELSE /\ upc' = [upc EXCEPT ![p] = "done"]
                           /\ uret' = [uret EXCEPT ![p] = got]
  /\ UNCHANGED <<dbVars, envVars, regVars, todoVars, resp, unow>>

TodoUpdateCall(p, id, title, description, status) ==
  /\ Quiet
  /\ upc[p] = "idle"
  /\ uinput' = [uinput EXCEPT ![p] =
                  [id |-> id, title |-> title, description |-> description,
                   status |-> status]]
  /\ LET got == TodoOrNotFound(todos, id)
     IN IF got.kind = "NotFound"
          THEN /\ upc' = [upc EXCEPT ![p] = "done"]
               /\ uret' = [uret EXCEPT ![p] = got]
               /\ existing' = existing
          ELSE /\ existing' = [existing EXCEPT ![p] = got.row]
               /\ IF status # NoStatus /\ status # got.row.status
                    THEN upc' = [upc EXCEPT ![p] = "status"] /\ uret' = uret
                    ELSE IF title # NoTitle \/ description # NoDesc
                      THEN upc' = [upc EXCEPT ![p] = "content"] /\ uret' = uret
                      ELSE /\ upc' = [upc EXCEPT ![p] = "done"]
                           /\ uret' = [uret EXCEPT ![p] = got]
  /\ UNCHANGED <<dbVars, envVars, regVars, todoVars, resp, unow>>

\* service.rs 86-95: the omitted field is taken from `existing`
NewTitle(in, ex) == IF in.title # NoTitle THEN in.title ELSE ex.title
NewDescriptionAsGiven(in, ex) == in.description

NewDescription(in, ex) ==
  IF in.description # NoDesc THEN in.description ELSE ex.description

\* service.rs 79-81: update_status(pool, id, status), None -> NotFound
TodoUpdateStatusAndContent(p) ==
  /\ Quiet
  /\ upc[p] = "status"
  /\ \E now \in Now :
       /\ clock' = now
       /\ todos' = UpdateContent(UpdateStatus(todos, uinput[p].id, uinput[p].status, now),
                                 uinput[p].id, NewTitle(uinput[p], existing[p]),
                                 NewDescription(uinput[p], existing[p]), now)
  /\ uret' = [uret EXCEPT ![p] = TodoOrNotFound(todos', uinput[p].id)]
  /\ upc' = [upc EXCEPT ![p] = "done"]
  /\ UNCHANGED <<users, jobs, nextUid, nextTid, regVars, todoVars,
                 resp, uinput, existing, unow>>

TodoUpdateStatus(p) ==
  /\ Quiet
  /\ upc[p] = "status"
  /\ \E now \in Now :
       /\ clock' = now
       /\ todos' = UpdateStatus(todos, uinput[p].id, uinput[p].status, now)
  /\ uret' = [uret EXCEPT ![p] = TodoOrNotFound(todos', uinput[p].id)]
  /\ upc' = [upc EXCEPT ![p] = "done"]
  /\ UNCHANGED <<users, jobs, nextUid, nextTid, regVars, todoVars,
                 resp, uinput, existing, unow>>

\* service.rs 93-95: update_content(pool, id, new_title, new_description)
TodoUpdateContentNoMerge(p) ==
  /\ Quiet
  /\ upc[p] = "content"
  /\ \E now \in Now :
       /\ clock' = now
       /\ todos' = UpdateContent(todos, uinput[p].id,
                                 NewTitle(uinput[p], existing[p]),
                                 uinput[p].description, now)
  /\ uret' = [uret EXCEPT ![p] = TodoOrNotFound(todos', uinput[p].id)]
  /\ upc' = [upc EXCEPT ![p] = "done"]
  /\ UNCHANGED <<users, jobs, nextUid, nextTid, regVars, todoVars,
                 resp, uinput, existing, unow>>

TodoUpdateContent(p) ==
  /\ Quiet
  /\ upc[p] = "content"
  /\ \E now \in Now :
       /\ clock' = now
       /\ todos' = UpdateContent(todos, uinput[p].id,
                                 NewTitle(uinput[p], existing[p]),
                                 NewDescription(uinput[p], existing[p]), now)
  /\ uret' = [uret EXCEPT ![p] = TodoOrNotFound(todos', uinput[p].id)]
  /\ upc' = [upc EXCEPT ![p] = "done"]
  /\ UNCHANGED <<users, jobs, nextUid, nextTid, regVars, todoVars,
                 resp, uinput, existing, unow>>

\* the caller takes the result; the worker serves the next request
TodoUpdateReturn(p) ==
  /\ upc[p] = "done"
  /\ upc' = [upc EXCEPT ![p] = "idle"]
  /\ uinput' = [uinput EXCEPT ![p] = NoUInput]
  /\ existing' = [existing EXCEPT ![p] = NoTodo]
  /\ uret' = [uret EXCEPT ![p] = NoTRet]
  /\ UNCHANGED <<dbVars, envVars, regVars, todoVars, resp, unow>>

\* ------------------- TodoService: the calls made of a single statement
\* the answer to a single-statement call
Answer(op, id, arg, kind, row, rows, flag) ==
  [op |-> op, id |-> id, arg |-> arg, kind |-> kind,
   row |-> row, rows |-> rows, flag |-> flag]

TodoAnswer(op, id, got) == Answer(op, id, "", got.kind, got.row, <<>>, FALSE)

\* service.rs 102-106: update_status(pool, id, Completed), None -> NotFound
TodoComplete(id) ==
  /\ Quiet
  /\ \E now \in Now :
       /\ clock' = now
       /\ todos' = UpdateStatus(todos, id, "Completed", now)
  /\ resp' = TodoAnswer("complete", id, TodoOrNotFound(todos', id))
  /\ UNCHANGED <<users, jobs, nextUid, nextTid, regVars, todoVars,
                 upc, uinput, existing, uret, unow>>

\* service.rs 109-113: update_status(pool, id, InProgress), None -> NotFound
TodoStartUnlessCompleted(id) ==
  /\ Quiet
  /\ \E now \in Now :
       /\ clock' = now
       /\ todos' = IF StoredTodo(todos, id).status = AsStr("Completed")
                     THEN todos
                     ELSE UpdateStatus(todos, id, "InProgress", now)
  /\ resp' = TodoAnswer("start", id, TodoOrNotFound(todos', id))
  /\ UNCHANGED <<users, jobs, nextUid, nextTid, regVars, todoVars,
                 upc, uinput, existing, uret, unow>>

TodoStart(id) ==
  /\ Quiet
  /\ \E now \in Now :
       /\ clock' = now
       /\ todos' = UpdateStatus(todos, id, "InProgress", now)
  /\ resp' = TodoAnswer("start", id, TodoOrNotFound(todos', id))
  /\ UNCHANGED <<users, jobs, nextUid, nextTid, regVars, todoVars,
                 upc, uinput, existing, uret, unow>>

\* service.rs 116-118: rows_affected() > 0
TodoDelete(id) ==
  /\ Quiet
  /\ todos' = DeleteById(todos, id)
  /\ resp' = Answer("todo_delete", id, "", "Ok", NoTodo, <<>>, FindById(todos, id) # {})
  /\ UNCHANGED <<users, jobs, envVars, regVars, todoVars,
                 upc, uinput, existing, uret, unow>>

\* service.rs 47-51: find_by_id, None -> NotFound
TodoGet(id) ==
  /\ Quiet
  /\ resp' = TodoAnswer("todo_get", id, TodoOrNotFound(todos, id))
  /\ UNCHANGED <<dbVars, envVars, regVars, todoVars, upc, uinput, existing, uret, unow>>

\* ORDER BY created_at DESC: every arrangement of the rows in which
\* created_at never rises; rows of equal created_at come in any order
OrderByCreatedAtDesc(rows) ==
  {s \in [1..Cardinality(rows) -> rows] :
     /\ \A r \in rows : \E i \in DOMAIN s : s[i] = r
     /\ \A i, j \in DOMAIN s : i < j => s[i].created_at >= s[j].created_at}

\* rows.into_iter().map(Into::into).collect()
TodosFromRows(s) == [i \in DOMAIN s |-> TodoFromRow(s[i])]

\* service.rs 54-56 / list_by_user: WHERE user_id ORDER BY created_at DESC
TodoListForUserUnfiltered(user_id) ==
  /\ ReadyFor("list_for_user")
  /\ \E s \in OrderByCreatedAtDesc(todos) :
       resp' = Answer("list_for_user", user_id, "", "Ok", NoTodo, TodosFromRows(s), FALSE)
  /\ UNCHANGED <<dbVars, envVars, regVars, todoVars, upc, uinput, existing, uret, unow>>

TodoListForUser(user_id) ==
  /\ ReadyFor("list_for_user")
  /\ \E s \in OrderByCreatedAtDesc({t \in todos : t.user_id = user_id}) :
       resp' = Answer("list_for_user", user_id, "", "Ok", NoTodo, TodosFromRows(s), FALSE)
  /\ UNCHANGED <<dbVars, envVars, regVars, todoVars, upc, uinput, existing, uret, unow>>

\* service.rs 59-65 / list_by_user_and_status: WHERE user_id AND status
TodoListForUserByStatus(user_id, status) ==
  /\ ReadyFor("list_for_user_by_status")
  /\ \E s \in OrderByCreatedAtDesc({t \in todos : /\ t.user_id = user_id
                                                  /\ t.status = AsStr(status)}) :
       resp' = Answer("list_for_user_by_status", user_id, status, "Ok", NoTodo,
                      TodosFromRows(s), FALSE)
  /\ UNCHANGED <<dbVars, envVars, regVars, todoVars, upc, uinput, existing, uret, unow>>

\* ------------------- UserService: the calls made of a single statement
\* fetch_optional(..).ok_or(UserFeatureError::NotFound(id)) on a users table
UserOrNotFound(tbl, id) ==
  IF FindById(tbl, id) = {}
    THEN [kind |-> "NotFound", row |-> NoUser]
    ELSE [kind |-> "Ok", row |-> CHOOSE u \in FindById(tbl, id) : TRUE]

UserAnswer(op, id, got) == Answer(op, id, "", got.kind, got.row, <<>>, FALSE)

\* service.rs 59-66: find_by_id, None -> NotFound
UserGet(id) ==
  /\ Quiet
  /\ resp' = UserAnswer("user_get", id, UserOrNotFound(users, id))
  /\ UNCHANGED <<dbVars, envVars, regVars, todoVars, upc, uinput, existing, uret, unow>>

\* service.rs 69-77: find_by_email, an Option
UserGetByEmail(email) ==
  /\ Quiet
  /\ resp' = IF FindByEmail(users, email) = {}
               THEN Answer("get_by_email", 0, email, "None", NoUser, <<>>, FALSE)
               ELSE Answer("get_by_email", 0, email, "Some",
                           CHOOSE u \in FindByEmail(users, email) : TRUE, <<>>, FALSE)
  /\ UNCHANGED <<dbVars, envVars, regVars, todoVars, upc, uinput, existing, uret, unow>>

\* service.rs 80-85 / UserRepository::list: ORDER BY created_at DESC
UserList ==
  /\ ReadyFor("user_list")
  /\ \E s \in OrderByCreatedAtDesc(users) :
       resp' = Answer("user_list", 0, "", "Ok", NoUser, s, FALSE)
  /\ UNCHANGED <<dbVars, envVars, regVars, todoVars, upc, uinput, existing, uret, unow>>

\* service.rs 88-104, the result kept: update_name(..).ok_or(NotFound), or get
UserUpdateCallNeverFails(id, name) ==
  /\ Quiet
  /\ UserUpdateRows(id, name)
  /\ resp' = Answer("user_update", id, name, "Ok",
                    UserOrNotFound(users', id).row, <<>>, FALSE)
  /\ UNCHANGED <<jobs, todos, nextUid, nextTid, regVars, todoVars,
                 upc, uinput, existing, uret, unow>>

UserUpdateCall(id, name) ==
  /\ Quiet
  /\ UserUpdateRows(id, name)
  /\ resp' = Answer("user_update", id, name, UserOrNotFound(users', id).kind,
                    UserOrNotFound(users', id).row, <<>>, FALSE)
  /\ UNCHANGED <<jobs, todos, nextUid, nextTid, regVars, todoVars,
                 upc, uinput, existing, uret, unow>>

\* service.rs 106-112, the result kept: rows_affected() > 0, or the error
UserDeleteCall(id) ==
  /\ Quiet
  /\ \E kind \in {"Ok", "Domain"} :
       /\ UserDeleteRows(id, kind)
       /\ resp' = Answer("user_delete", id, "", kind, NoUser, <<>>,
                         kind = "Ok" /\ FindById(users, id) # {})
  /\ UNCHANGED <<jobs, envVars, regVars, todoVars, upc, uinput, existing, uret, unow>>

\* the caller takes the answer of a single-statement call
Respond ==
  /\ resp # NoResp
  /\ resp' = NoResp
  /\ UNCHANGED <<dbVars, envVars, regVars, todoVars, upc, uinput, existing, uret, unow>>

\* ----------------- TodoRepository writes, the clock read and the statement
\* a clock that only moves forward: each reading is later than the one before
Later == clock + 1

\* todo.rs 219: let now = OffsetDateTime::now_utc()
UpdateStatusNow(p, id, status) ==
  /\ Quiet
  /\ upc[p] = "idle"
  /\ clock <= MaxClock
  /\ clock' = Later
  /\ unow' = [unow EXCEPT ![p] = Later]
  /\ uinput' = [uinput EXCEPT ![p] =
                  [id |-> id, title |-> NoTitle, description |-> NoDesc, status |-> status]]
  /\ upc' = [upc EXCEPT ![p] = "update_status"]
  /\ UNCHANGED <<dbVars, nextUid, nextTid, regVars, todoVars, resp, existing, uret>>

\* todo.rs 221-235: the UPDATE is run with the reading taken before
UpdateStatusExecute(p) ==
  /\ Quiet
  /\ upc[p] = "update_status"
  /\ todos' = UpdateStatus(todos, uinput[p].id, uinput[p].status, unow[p])
  /\ uret' = [uret EXCEPT ![p] = TodoOrNotFound(todos', uinput[p].id)]
  /\ upc' = [upc EXCEPT ![p] = "done"]
  /\ UNCHANGED <<users, jobs, envVars, regVars, todoVars, resp, uinput, existing, unow>>

\* todo.rs 245: let now = OffsetDateTime::now_utc()
UpdateContentNow(p, id, title, description) ==
  /\ Quiet
  /\ upc[p] = "idle"
  /\ clock <= MaxClock
  /\ clock' = Later
  /\ unow' = [unow EXCEPT ![p] = Later]
  /\ uinput' = [uinput EXCEPT ![p] =
                  [id |-> id, title |-> title, description |-> description,
                   status |-> NoStatus]]
  /\ upc' = [upc EXCEPT ![p] = "update_content"]
  /\ UNCHANGED <<dbVars, nextUid, nextTid, regVars, todoVars, resp, existing, uret>>

\* todo.rs 247-262
UpdateContentExecute(p) ==
  /\ Quiet
  /\ upc[p] = "update_content"
  /\ todos' = UpdateContent(todos, uinput[p].id, uinput[p].title,
                            uinput[p].description, unow[p])
  /\ uret' = [uret EXCEPT ![p] = TodoOrNotFound(todos', uinput[p].id)]
  /\ upc' = [upc EXCEPT ![p] = "done"]
  /\ UNCHANGED <<users, jobs, envVars, regVars, todoVars, resp, uinput, existing, unow>>

\* the caller takes the Option<Todo>
RepositoryReturn(p) ==
  /\ upc[p] = "done"
  /\ upc' = [upc EXCEPT ![p] = "idle"]
  /\ uinput' = [uinput EXCEPT ![p] = NoUInput]
  /\ uret' = [uret EXCEPT ![p] = NoTRet]
  /\ unow' = [unow EXCEPT ![p] = 0]
  /\ UNCHANGED <<dbVars, envVars, regVars, todoVars, resp, existing>>

\* ------------------------------------- GraphQL resolvers (schema/*.rs)
\* what a resolver hands to GraphQL: a value, a null, or an error
GqlValue(flag) == [error |-> FALSE, null |-> FALSE, flag |-> flag]
GqlNull        == [error |-> FALSE, null |-> TRUE, flag |-> FALSE]
GqlError       == [error |-> TRUE, null |-> TRUE, flag |-> FALSE]

\* `service(..).await?` then Ok(x.into()): an Err of the service is the
\* error of the field
Propagated(kind, flag) == IF kind = "Ok" THEN GqlValue(flag) ELSE GqlError

\* query.rs 11-15, 32-36: `service::get(..).await.ok()` then Ok(x.map(..))
QueryUserPropagating(ans) == Propagated(ans.kind, FALSE)

QueryUser(ans) == IF ans.kind = "Ok" THEN GqlValue(FALSE) ELSE GqlNull
QueryTodo(ans) == IF ans.kind = "Ok" THEN GqlValue(FALSE) ELSE GqlNull

\* mutation.rs 25-39, 59-102
MutationUpdateUser(ans)   == Propagated(ans.kind, FALSE)
MutationDeleteUser(ans)   == Propagated(ans.kind, ans.flag)
MutationUpdateTodo(ans)   == Propagated(ans.kind, FALSE)
MutationCompleteTodo(ans) == Propagated(ans.kind, FALSE)
MutationStartTodo(ans)    == Propagated(ans.kind, FALSE)
MutationDeleteTodo(ans)   == Propagated(ans.kind, ans.flag)

\* ------------------------------------------------------- specifications
\* the user workflow: registrations, renames and deletions of users
Next ==
  \/ \E p \in Procs, in \in RegInputs : RegisterCall(p, in.email, in.name)
  \/ \E p \in Procs : RegisterBegin(p)
  \/ \E p \in Procs : RegisterInsert(p)
  \/ \E p \in Procs : RegisterEnqueue(p)
  \/ \E p \in Procs : RegisterCommit(p)
  \/ \E p \in Procs : RegisterAbort(p)
  \/ \E p \in Procs : RegisterReturn(p)
  \/ \E id \in UserIds, name \in Names \cup {NoName} : UserUpdate(id, name)
  \/ \E id \in UserIds : UserDelete(id)

Spec == Init /\ [][Next]_vars

\* two registration requests, each served once, and nothing else
RaceNext ==
  \/ \E p \in Procs, in \in RegInputs : RegisterCall(p, in.email, in.name)
  \/ \E p \in Procs : RegisterBegin(p)
  \/ \E p \in Procs : RegisterInsert(p)
  \/ \E p \in Procs : RegisterEnqueue(p)
  \/ \E p \in Procs : RegisterCommit(p)
  \/ \E p \in Procs : RegisterAbort(p)

RaceSpec == Init /\ [][RaceNext]_vars

\* registration requests on a database that answers every statement: each
\* statement of a call that can run does run (begin, enqueue and commit never
\* wait), and an INSERT waiting on the unique index is woken whenever the
\* transaction it waits for ends
RegisterStatement(p) ==
  \/ RegisterBegin(p)
  \/ RegisterEnqueue(p)
  \/ RegisterCommit(p)

LiveNext ==
  \/ \E p \in Procs, in \in RegInputs : RegisterCall(p, in.email, in.name)
  \/ \E p \in Procs : RegisterStatement(p)
  \/ \E p \in Procs : RegisterInsert(p)
  \/ \E p \in Procs : RegisterAbort(p)
  \/ \E p \in Procs : RegisterReturn(p)

LiveSpec ==
  /\ Init
  /\ [][LiveNext]_vars
  /\ \A p \in Procs : WF_vars(RegisterStatement(p)) /\ SF_vars(RegisterInsert(p))

\* the todo workflow, on a database where users 1 and 2 have registered
TodoInit ==
  /\ users = {[id |-> 1, email |-> "e1", name |-> "n1", created_at |-> 0, updated_at |-> 0],
              [id |-> 2, email |-> "e2", name |-> "n1", created_at |-> 0, updated_at |-> 0]}
  /\ jobs = SetToBag({WelcomeEmailArgs(1, "e1", "n1"), WelcomeEmailArgs(2, "e2", "n1")})
  /\ todos = {}
  /\ clock = 0
  /\ nextUid = 3
  /\ nextTid = 1
  /\ pc = [p \in Procs |-> "idle"]
  /\ input = [p \in Procs |-> NoInput]
  /\ tx = [p \in Procs |-> NoTx]
  /\ user = [p \in Procs |-> NoUser]
  /\ ret = [p \in Procs |-> NoRet]
  /\ tpc = [p \in Procs |-> "idle"]
  /\ tinput = [p \in Procs |-> NoTInput]
  /\ tret = [p \in Procs |-> NoTRet]
  /\ resp = NoResp
  /\ upc = [p \in Procs |-> "idle"]
  /\ uinput = [p \in Procs |-> NoUInput]
  /\ existing = [p \in Procs |-> NoTodo]
  /\ uret = [p \in Procs |-> NoTRet]
  /\ unow = [p \in Procs |-> 0]

TodoNext ==
  \/ \E p \in Procs, user_id \in 1..nextUid, title \in Titles, description \in Descs :
       TodoCreateCall(p, user_id, title, description)
  \/ \E p \in Procs : TodoCreateInsert(p)
  \/ \E p \in Procs : TodoCreateReturn(p)
  \/ \E id \in 1..nextUid : UserDelete(id)

TodoSpec == TodoInit /\ [][TodoNext]_vars

\* the todo operations, on a database where users 1 and 2 have registered
\* and two todos have been created, the first by user 1
EditInit ==
  /\ users = {[id |-> 1, email |-> "e1", name |-> "n1", created_at |-> 0, updated_at |-> 0],
              [id |-> 2, email |-> "e2", name |-> "n1", created_at |-> 0, updated_at |-> 0]}
  /\ jobs = SetToBag({WelcomeEmailArgs(1, "e1", "n1"), WelcomeEmailArgs(2, "e2", "n1")})
  /\ \E owner \in {1, 2} :
       todos = {TodoCreateRow(1, 1, "t1", NoDesc, 0), TodoCreateRow(2, owner, "t1", NoDesc, 0)}
  /\ clock = 0
  /\ nextUid = 3
  /\ nextTid = 3
  /\ pc = [p \in Procs |-> "idle"]
  /\ input = [p \in Procs |-> NoInput]
  /\ tx = [p \in Procs |-> NoTx]
  /\ user = [p \in Procs |-> NoUser]
  /\ ret = [p \in Procs |-> NoRet]
  /\ tpc = [p \in Procs |-> "idle"]
  /\ tinput = [p \in Procs |-> NoTInput]
  /\ tret = [p \in Procs |-> NoTRet]
  /\ resp = NoResp
  /\ upc = [p \in Procs |-> "idle"]
  /\ uinput = [p \in Procs |-> NoUInput]
  /\ existing = [p \in Procs |-> NoTodo]
  /\ uret = [p \in Procs |-> NoTRet]
  /\ unow = [p \in Procs |-> 0]

\* the fields an update call may carry
UpdateTitles   == {NoTitle, "t2"}
UpdateDescs    == {NoDesc, "d1"}
UpdateStatuses == {NoStatus} \cup Statuses

\* update calls address todo 1 or an id that matches no row; todo 2 is the
\* bystander, touched by complete, start and delete only
EditNext ==
  \/ \E id \in {1, nextTid}, title \in UpdateTitles, description \in UpdateDescs,
        status \in UpdateStatuses : TodoUpdateCall(1, id, title, description, status)
  \/ TodoUpdateStatus(1)
  \/ TodoUpdateContent(1)
  \/ TodoUpdateReturn(1)
  \/ \E id \in 1..nextTid : TodoComplete(id)
  \/ \E id \in 1..nextTid : TodoStart(id)
  \/ \E id \in 1..nextTid : TodoDelete(id)
  \/ Respond

EditSpec == EditInit /\ [][EditNext]_vars

\* both services, on a database where users 1 and 2 have registered and
\* two todos have been created, the first by user 1
CrudInit ==
  /\ users = {[id |-> 1, email |-> "e1", name |-> "n1", created_at |-> 0, updated_at |-> 0],
              [id |-> 2, email |-> "e2", name |-> "n1", created_at |-> 0, updated_at |-> 0]}
  /\ \E owner \in {1, 2} :
       todos = {TodoCreateRow(1, 1, "t1", NoDesc, 0), TodoCreateRow(2, owner, "t1", NoDesc, 0)}
  /\ clock = 0
  /\ jobs = SetToBag({WelcomeEmailArgs(1, "e1", "n1"), WelcomeEmailArgs(2, "e2", "n1")})
  /\ nextUid = 3
  /\ nextTid = 3
  /\ pc = [p \in Procs |-> "idle"]
  /\ input = [p \in Procs |-> NoInput]
  /\ tx = [p \in Procs |-> NoTx]
  /\ user = [p \in Procs |-> NoUser]
  /\ ret = [p \in Procs |-> NoRet]
  /\ tpc = [p \in Procs |-> "idle"]
  /\ tinput = [p \in Procs |-> NoTInput]
  /\ tret = [p \in Procs |-> NoTRet]
  /\ resp = NoResp
  /\ upc = [p \in Procs |-> "idle"]
  /\ uinput = [p \in Procs |-> NoUInput]
  /\ existing = [p \in Procs |-> NoTodo]
  /\ uret = [p \in Procs |-> NoTRet]
  /\ unow = [p \in Procs |-> 0]

\* update calls carry the status Completed and nothing else
CrudNext ==
  \/ \E id \in 1..nextUid : UserGet(id)
  \/ \E email \in {"e1", "e2"} : UserGetByEmail(email)
  \/ UserList
  \/ \E id \in 1..nextUid, name \in {NoName, "n2"} : UserUpdateCall(id, name)
  \/ \E id \in 1..nextUid : UserDeleteCall(id)
  \/ \E id \in 1..nextTid : TodoGet(id)
  \/ \E user_id \in 1..nextUid : TodoListForUser(user_id)
  \/ \E user_id \in 1..nextUid, status \in Statuses :
       TodoListForUserByStatus(user_id, status)
  \/ \E id \in 1..nextTid : TodoUpdateCall(1, id, NoTitle, NoDesc, "Completed")
  \/ TodoUpdateStatus(1)
  \/ TodoUpdateReturn(1)
  \/ \E id \in 1..nextTid : TodoComplete(id)
  \/ \E id \in 1..nextTid : TodoStart(id)
  \/ \E id \in 1..nextTid : TodoDelete(id)
  \/ Respond

CrudSpec == CrudInit /\ [][CrudNext]_vars

\* the list calls, on a database where users 1 and 2 have registered and two
\* todos have been created since, the first by user 1, at any admissible times
ListInit ==
  /\ \E owner \in {1, 2}, u2, t1, t2 \in 0..MaxClock :
       /\ u2 <= t1 /\ t1 <= t2
       /\ users = {[id |-> 1, email |-> "e1", name |-> "n1", created_at |-> 0, updated_at |-> 0],
                   [id |-> 2, email |-> "e2", name |-> "n1", created_at |-> u2, updated_at |-> u2]}
       /\ todos = {TodoCreateRow(1, 1, "t1", NoDesc, t1),
                   TodoCreateRow(2, owner, "t1", NoDesc, t2)}
       /\ clock = t2
  /\ jobs = SetToBag({WelcomeEmailArgs(1, "e1", "n1"), WelcomeEmailArgs(2, "e2", "n1")})
  /\ nextUid = 3
  /\ nextTid = 3
  /\ pc = [p \in Procs |-> "idle"]
  /\ input = [p \in Procs |-> NoInput]
  /\ tx = [p \in Procs |-> NoTx]
  /\ user = [p \in Procs |-> NoUser]
  /\ ret = [p \in Procs |-> NoRet]
  /\ tpc = [p \in Procs |-> "idle"]
  /\ tinput = [p \in Procs |-> NoTInput]
  /\ tret = [p \in Procs |-> NoTRet]
  /\ resp = NoResp
  /\ upc = [p \in Procs |-> "idle"]
  /\ uinput = [p \in Procs |-> NoUInput]
  /\ existing = [p \in Procs |-> NoTodo]
  /\ uret = [p \in Procs |-> NoTRet]
  /\ unow = [p \in Procs |-> 0]

ListNext ==
  \/ UserList
  \/ \E user_id \in 1..nextUid : TodoListForUser(user_id)
  \/ \E user_id \in 1..nextUid, status \in Statuses :
       TodoListForUserByStatus(user_id, status)
  \/ \E id \in 1..nextUid : UserUpdateCall(id, "n2")
  \/ \E id \in 1..nextUid : UserDeleteCall(id)
  \/ \E id \in 1..nextTid : TodoComplete(id)
  \/ \E id \in 1..nextTid : TodoDelete(id)
  \/ Respond

ListSpec == ListInit /\ [][ListNext]_vars

\* concurrent repository writes to the todo of user 1, the clock read of
\* each write a step of its own
ClockInit ==
  /\ users = {[id |-> 1, email |-> "e1", name |-> "n1", created_at |-> 0, updated_at |-> 0],
              [id |-> 2, email |-> "e2", name |-> "n1", created_at |-> 0, updated_at |-> 0]}
  /\ jobs = SetToBag({WelcomeEmailArgs(1, "e1", "n1"), WelcomeEmailArgs(2, "e2", "n1")})
  /\ todos = {TodoCreateRow(1, 1, "t1", NoDesc, 0)}
  /\ clock = 0
  /\ nextUid = 3
  /\ nextTid = 2
  /\ pc = [p \in Procs |-> "idle"]
  /\ input = [p \in Procs |-> NoInput]
  /\ tx = [p \in Procs |-> NoTx]
  /\ user = [p \in Procs |-> NoUser]
  /\ ret = [p \in Procs |-> NoRet]
  /\ tpc = [p \in Procs |-> "idle"]
  /\ tinput = [p \in Procs |-> NoTInput]
  /\ tret = [p \in Procs |-> NoTRet]
  /\ resp = NoResp
  /\ upc = [p \in Procs |-> "idle"]
  /\ uinput = [p \in Procs |-> NoUInput]
  /\ existing = [p \in Procs |-> NoTodo]
  /\ uret = [p \in Procs |-> NoTRet]
  /\ unow = [p \in Procs |-> 0]

ClockNext ==
  \/ \E p \in Procs, id \in 1..nextTid, status \in Statuses : UpdateStatusNow(p, id, status)
  \/ \E p \in Procs : UpdateStatusExecute(p)
  \/ \E p \in Procs, id \in 1..nextTid, title \in Titles, description \in Descs :
       UpdateContentNow(p, id, title, description)
  \/ \E p \in Procs : UpdateContentExecute(p)
  \/ \E p \in Procs : RepositoryReturn(p)

ClockSpec == ClockInit /\ [][ClockNext]_vars

\* two update calls at a time on the todo of user 1, each carrying a title
\* only or a description only
MergeInit ==
  /\ users = {[id |-> 1, email |-> "e1", name |-> "n1", created_at |-> 0, updated_at |-> 0],
              [id |-> 2, email |-> "e2", name |-> "n1", created_at |-> 0, updated_at |-> 0]}
  /\ jobs = SetToBag({WelcomeEmailArgs(1, "e1", "n1"), WelcomeEmailArgs(2, "e2", "n1")})
  /\ todos = {TodoCreateRow(1, 1, "t1", NoDesc, 0)}
  /\ clock = 0
  /\ nextUid = 3
  /\ nextTid = 2
  /\ pc = [p \in Procs |-> "idle"]
  /\ input = [p \in Procs |-> NoInput]
  /\ tx = [p \in Procs |-> NoTx]
  /\ user = [p \in Procs |-> NoUser]
  /\ ret = [p \in Procs |-> NoRet]
  /\ tpc = [p \in Procs |-> "idle"]
  /\ tinput = [p \in Procs |-> NoTInput]
  /\ tret = [p \in Procs |-> NoTRet]
  /\ resp = NoResp
  /\ upc = [p \in Procs |-> "idle"]
  /\ uinput = [p \in Procs |-> NoUInput]
  /\ existing = [p \in Procs |-> NoTodo]
  /\ uret = [p \in Procs |-> NoTRet]
  /\ unow = [p \in Procs |-> 0]

MergeNext ==
  \/ \E p \in Procs, title \in UpdateTitles \ {NoTitle} :
       TodoUpdateCall(p, 1, title, NoDesc, NoStatus)
  \/ \E p \in Procs, description \in UpdateDescs \ {NoDesc} :
       TodoUpdateCall(p, 1, NoTitle, description, NoStatus)
  \/ \E p \in Procs : TodoUpdateContent(p)
  \/ \E p \in Procs : TodoUpdateReturn(p)

MergeSpec == MergeInit /\ [][MergeNext]_vars

\* ------------------------------------------------------------ properties
UserIdsOf(tbl)  == {u.id : u \in tbl}
JobUserIds(bag) == {j.user_id : j \in BagToSet(bag)}
JobsOfUser(bag, id) == {j \in BagToSet(bag) : j.user_id = id}
JobsOfEmail(bag, email) == {j \in BagToSet(bag) : j.email = email}
\* number of queued jobs addressed to an email, copies counted
JobCountOfEmail(bag, email) ==
  IF JobsOfEmail(bag, email) = {} THEN 0
  ELSE BagCardinality([j \in JobsOfEmail(bag, email) |-> bag[j]])

\* C1: the user row and the welcome-email job of a registration become visible
\* to other requests in the same step or not at all: no step makes a user id
\* appear in the users table without making a job for that id appear in the
\* queue, nor the other way round, and every visible user row has its job
\* (enqueue failure, commit failure and abort included).
C1_AtomicVisibility ==
  [][/\ \A id \in UserIds :
          (id \notin UserIdsOf(users) /\ id \in UserIdsOf(users'))
            <=> (id \notin JobUserIds(jobs) /\ id \in JobUserIds(jobs'))
     /\ UserIdsOf(users') \subseteq JobUserIds(jobs')]_vars

\* one registration has committed (row and job visible) while another, which
\* had inserted its row, failed or was aborted and left nothing visible
C1_Witness ==
  \E p, q \in Procs :
    /\ pc[p] = "done" /\ ret[p].kind = "Ok"
    /\ ret[p].row \in users /\ JobsOfUser(jobs, ret[p].row.id) # {}
    /\ pc[q] = "done" /\ ret[q].kind \in {"Queue", "Domain", "Aborted"}
    /\ user[q] # NoUser
    /\ user[q].id \notin UserIdsOf(users) /\ user[q].id \notin JobUserIds(jobs)

\* C2: when the enqueue step of register fails, the call returns the Queue
\* error kind, its transaction is rolled back, the step changes neither the
\* users table nor the queue, and no user row with that email and no job of
\* that user is visible.
C2_EnqueueFailureRollsBack ==
  [][\A p \in Procs :
       (pc[p] = "enqueue" /\ pc'[p] = "done" /\ ret'[p].kind # "Aborted") =>
         /\ ret'[p].kind = "Queue"
         /\ tx'[p] = NoTx
         /\ users' = users /\ jobs' = jobs
         /\ FindByEmail(users', input[p].email) = {}
         /\ JobsOfUser(jobs', user[p].id) = {}]_vars

C2_Witness ==
  \E p \in Procs :
    /\ pc[p] = "done" /\ ret[p].kind = "Queue"
    /\ user[p] # NoUser
    /\ FindByEmail(users, input[p].email) = {}
    /\ JobsOfUser(jobs, user[p].id) = {}

\* C3: a register call whose email is bound to a committed user ends at the
\* pre-check with EmailExists carrying that email, opens no transaction and
\* writes nothing: the tables are unchanged, no id is drawn, and exactly one
\* user row with that email exists.
C3_DuplicateEmailRejected ==
  [][\A p \in Procs :
       (pc[p] = "idle" /\ pc'[p] # "idle"
          /\ FindByEmail(users, input'[p].email) # {}) =>
         /\ pc'[p] = "done"
         /\ ret'[p].kind = "EmailExists" /\ ret'[p].val = input'[p].email
         /\ ~tx'[p].open /\ tx'[p] = NoTx
         /\ users' = users /\ jobs' = jobs /\ nextUid' = nextUid
         /\ Cardinality(FindByEmail(users', input'[p].email)) = 1]_vars

C3_Witness ==
  \E p \in Procs :
    /\ pc[p] = "done" /\ ret[p].kind = "EmailExists"
    /\ ret[p].val = input[p].email
    /\ Cardinality(FindByEmail(users, input[p].email)) = 1

\* C4: of two finished register calls with the same email, at most one
\* succeeded, the users table holds as many rows with that email as calls
\* succeeded and the queue as many jobs; when neither call met an enqueue
\* failure, a commit failure or an abort, exactly one succeeded.
Succeeded(p) == pc[p] = "done" /\ ret[p].kind = "Ok"
Faulted(p) ==
  \/ ret[p].kind \in {"Queue", "Aborted"}
  \/ ret[p].kind = "Domain" /\ ret[p].val = "CommitFailed"

C4_ExactlyOneWinner ==
  \A p, q \in Procs :
    (p # q /\ pc[p] = "done" /\ pc[q] = "done" /\ input[p].email = input[q].email) =>
      LET wins == Cardinality({r \in {p, q} : Succeeded(r)})
      IN /\ wins <= 1
         /\ Cardinality(FindByEmail(users, input[p].email)) = wins
         /\ JobCountOfEmail(jobs, input[p].email) = wins
         /\ (~Faulted(p) /\ ~Faulted(q)) => wins = 1

\* both calls passed the pre-check; the loser was stopped by the unique index
C4_Witness ==
  \E p, q \in Procs :
    /\ p # q /\ pc[p] = "done" /\ pc[q] = "done"
    /\ input[p].email = input[q].email
    /\ Succeeded(p)
    /\ ret[q].kind = "Domain" /\ ret[q].val = "UniqueViolation"
    /\ Cardinality(FindByEmail(users, input[p].email)) = 1
    /\ JobCountOfEmail(jobs, input[p].email) = 1

\* C5: a register call whose insert is rejected by the unique index (it lost
\* the race after passing the pre-check) fails with the EmailExists kind.
C5_RaceLoserGetsEmailExists ==
  [][\A p \in Procs :
       (pc[p] = "create" /\ pc'[p] = "done" /\ ret'[p].kind # "Aborted") =>
         ret'[p].kind = "EmailExists"]_vars

\* C6: no two committed user rows share an email, under any interleaving of
\* register, update and delete calls.
C6_EmailUnique ==
  \A u, v \in users : u.email = v.email => u = v

\* the unique index has stopped an insert that the pre-check had let through
C6_Witness ==
  \E p \in Procs :
    /\ pc[p] = "done" /\ ret[p].kind = "Domain" /\ ret[p].val = "UniqueViolation"
    /\ Cardinality(FindByEmail(users, input[p].email)) = 1

\* C7: the step that makes a register call succeed returns a user with the
\* email and name of the input, stores that user, and adds to the queue
\* exactly one job, on channel "emails", whose user_id, email and name are
\* those of the returned user; it is the only job of that user.
C7_WelcomeJobMatchesUser ==
  [][\A p \in Procs :
       (ret[p].kind # "Ok" /\ ret'[p].kind = "Ok") =>
         LET u == ret'[p].row
             job == [channel |-> "emails", user_id |-> u.id,
                     email |-> u.email, name |-> u.name]
         IN /\ u.email = input[p].email /\ u.name = input[p].name
            /\ u \in users' /\ u \notin users
            /\ jobs' = jobs (+) SetToBag({job})
            /\ JobsOfUser(jobs', u.id) = {job}
            /\ CopiesIn(job, jobs') = 1]_vars

C7_Witness ==
  \E p \in Procs :
    /\ pc[p] = "done" /\ ret[p].kind = "Ok"
    /\ ret[p].row \in users
    /\ ret[p].row.email = input[p].email /\ ret[p].row.name = input[p].name
    /\ JobsOfUser(jobs, ret[p].row.id) =
         {[channel |-> "emails", user_id |-> ret[p].row.id,
           email |-> input[p].email, name |-> input[p].name]}

\* C8: a TodoService::create call whose user id resolves to no user ends at
\* the pre-check with UserNotFound carrying that id, and the todos table is
\* unchanged.
C8_CreateForMissingUser ==
  [][\A p \in Procs :
       (tpc[p] = "idle" /\ tpc'[p] # "idle"
          /\ FindById(users, tinput'[p].user_id) = {}) =>
         /\ tpc'[p] = "done"
         /\ tret'[p].kind = "UserNotFound" /\ tret'[p].val = tinput'[p].user_id
         /\ todos' = todos /\ nextTid' = nextTid]_vars

C8_Witness ==
  \E p \in Procs :
    /\ tpc[p] = "done" /\ tret[p].kind = "UserNotFound"
    /\ tret[p].val = tinput[p].user_id
    /\ FindById(users, tinput[p].user_id) = {}

\* C9: every TodoService::create call that ends while its owning user does
\* not exist reports the typed UserNotFound error, also when the owner was
\* deleted between the pre-check and the insert.
C9_MissingUserIsTyped ==
  [][\A p \in Procs :
       (tpc[p] # "done" /\ tpc'[p] = "done"
          /\ FindById(users, tinput'[p].user_id) = {}) =>
         tret'[p].kind = "UserNotFound"]_vars

\* C10: the step that makes a create call succeed returns a todo with status
\* Pending and the user_id, title and description of the input, and stores
\* exactly that todo, its status column being "pending".
C10_CreatedTodoIsPending ==
  [][\A p \in Procs :
       (tret[p].kind # "Ok" /\ tret'[p].kind = "Ok") =>
         LET t == tret'[p].row
         IN /\ t.status = "Pending"
            /\ t.user_id = tinput[p].user_id
            /\ t.title = tinput[p].title
            /\ t.description = tinput[p].description
            /\ \E r \in todos' :
                 /\ r \notin todos /\ todos' = todos \cup {r}
                 /\ r.status = "pending"
                 /\ [r EXCEPT !.status = "Pending"] = t]_vars

\* two todos created, one with a description and one without
C10_Witness ==
  \E p, q \in Procs :
    /\ tret[p].kind = "Ok" /\ tret[q].kind = "Ok"
    /\ tret[p].row.status = "Pending" /\ tret[q].row.status = "Pending"
    /\ tret[p].row.description = "d1" /\ tret[q].row.description = NoDesc
    /\ \E r \in todos : r.id = tret[p].row.id /\ r.status = "pending"

\* C11: when update finds a status different from the current one, its write
\* changes only status and updated_at of the row: the todo it returns has the
\* new status and the title and description fetched before the write,
\* whatever title and description the call carried.
C11_StatusChangeIgnoresContent ==
  [][\A p \in Procs :
       (/\ upc[p] = "status" /\ upc'[p] = "done"
        /\ FindById(todos, uinput[p].id) # {})
       => LET before == StoredTodo(todos, uinput[p].id)
              after  == StoredTodo(todos', uinput[p].id)
          IN /\ FindById(todos', uinput[p].id) = {after}
             /\ after = [before EXCEPT !.status = AsStr(uinput[p].status),
                                       !.updated_at = after.updated_at]
             /\ uret'[p].kind = "Ok"
             /\ uret'[p].row = TodoFromRow(after)
             /\ uret'[p].row.status = uinput[p].status
             /\ uret'[p].row.title = existing[p].title
             /\ uret'[p].row.description = existing[p].description]_vars

\* an update carrying a new status and a new title has changed the status only
C11_Witness ==
  \E p \in Procs :
    /\ upc[p] = "done" /\ uret[p].kind = "Ok"
    /\ uinput[p].status = "InProgress" /\ existing[p].status = "Pending"
    /\ uinput[p].title = "t2" /\ uinput[p].description = "d1"
    /\ uret[p].row.status = "InProgress"
    /\ uret[p].row.title = "t1" /\ uret[p].row.description = NoDesc

\* C12: an update without a status that carries only a title or only a
\* description, whose fetched record is still the stored one when it writes,
\* stores the supplied field, keeps the other field as it was, and leaves the
\* status alone.
C12_PartialContentUpdate ==
  [][\A p \in Procs :
       (/\ upc[p] = "content" /\ upc'[p] = "done"
        /\ uinput[p].status = NoStatus
        /\ (uinput[p].title = NoTitle) # (uinput[p].description = NoDesc)
        /\ FindById(todos, uinput[p].id) # {}
        /\ TodoFromRow(StoredTodo(todos, uinput[p].id)) = existing[p])
       => LET before == StoredTodo(todos, uinput[p].id)
              after  == StoredTodo(todos', uinput[p].id)
          IN /\ after.status = before.status
             /\ uinput[p].title # NoTitle =>
                  after.title = uinput[p].title /\ after.description = before.description
             /\ uinput[p].description # NoDesc =>
                  after.description = uinput[p].description /\ after.title = before.title
             /\ uret'[p].kind = "Ok"
             /\ uret'[p].row = TodoFromRow(after)]_vars

\* a title-only update of a todo that had a description has kept it
C12_Witness ==
  \E p \in Procs :
    /\ upc[p] = "done" /\ uret[p].kind = "Ok"
    /\ uinput[p].status = NoStatus
    /\ uinput[p].title = "t2" /\ uinput[p].description = NoDesc
    /\ existing[p].title = "t1" /\ existing[p].description = "d1"
    /\ uret[p].row.title = "t2" /\ uret[p].row.description = "d1"

\* C13: an update of an existing todo with no title, no description and a
\* status absent or equal to the current one is over after its get: it
\* returns the fetched record and the todos table is the same after as before.
C13_EmptyUpdateWritesNothing ==
  [][\A p \in Procs :
       (/\ upc[p] = "idle" /\ upc'[p] # "idle"
        /\ FindById(todos, uinput'[p].id) # {}
        /\ uinput'[p].title = NoTitle /\ uinput'[p].description = NoDesc
        /\ \/ uinput'[p].status = NoStatus
           \/ AsStr(uinput'[p].status) = StoredTodo(todos, uinput'[p].id).status)
       => /\ upc'[p] = "done"
          /\ uret'[p].kind = "Ok"
          /\ uret'[p].row = TodoFromRow(StoredTodo(todos, uinput'[p].id))
          /\ todos' = todos
          /\ clock' = clock]_vars

\* an update carrying only the current status of a todo that was written
\* before has returned it with its updated_at
C13_Witness ==
  \E p \in Procs :
    /\ upc[p] = "done" /\ uret[p].kind = "Ok"
    /\ uinput[p].title = NoTitle /\ uinput[p].description = NoDesc
    /\ uinput[p].status = "Completed"
    /\ uret[p].row.status = "Completed"
    /\ uret[p].row = TodoFromRow(StoredTodo(todos, uinput[p].id))
    /\ existing[p] = uret[p].row

\* C14: complete and start take no notice of the current status: on an
\* existing todo they answer Ok with the row, whose status is now Completed
\* (resp. InProgress) and whose other columns but updated_at are as before;
\* on an id without a row they answer NotFound and write nothing.
C14_CompleteStartUnconditional ==
  [][(resp = NoResp /\ resp'.op \in {"complete", "start"})
       => LET id     == resp'.id
              target == IF resp'.op = "complete" THEN "Completed" ELSE "InProgress"
              before == StoredTodo(todos, id)
              after  == StoredTodo(todos', id)
          IN IF FindById(todos, id) # {}
               THEN /\ resp'.kind = "Ok"
                    /\ after = [before EXCEPT !.status = AsStr(target),
                                              !.updated_at = after.updated_at]
                    /\ resp'.row = TodoFromRow(after)
                    /\ resp'.row.status = target
                    /\ todos' = (todos \ {before}) \cup {after}
               ELSE /\ resp'.kind = "NotFound"
                    /\ todos' = todos]_vars

\* start has answered InProgress for a todo that an update in progress had
\* fetched as Completed
C14_Witness ==
  /\ resp.op = "start" /\ resp.kind = "Ok" /\ resp.id = 1
  /\ upc[1] = "content" /\ existing[1].status = "Completed"
  /\ resp.row.status = "InProgress"
  /\ resp.row.title = existing[1].title
  /\ resp.row.user_id = existing[1].user_id

\* C15: a call on an id that matches no row. get, update (users: with a
\* name), complete and start answer NotFound; delete answers false without
\* an error; the users, todos and jobs tables are the same after the call.
C15_MissingIdHandled ==
  [][/\ (resp = NoResp /\ resp'.op \in {"user_get", "user_update", "user_delete"}
           /\ FindById(users, resp'.id) = {}
           /\ (resp'.op = "user_update" => resp'.arg # NoName))
        => /\ UNCHANGED dbVars
           /\ IF resp'.op = "user_delete"
                THEN resp'.kind = "Ok" /\ resp'.flag = FALSE
                ELSE resp'.kind = "NotFound"
     /\ (resp = NoResp /\ resp'.op \in {"todo_get", "complete", "start", "todo_delete"}
           /\ FindById(todos, resp'.id) = {})
        => /\ UNCHANGED dbVars
           /\ IF resp'.op = "todo_delete"
                THEN resp'.kind = "Ok" /\ resp'.flag = FALSE
                ELSE resp'.kind = "NotFound"
     /\ \A p \in Procs :
          (/\ upc[p] # "done" /\ upc'[p] = "done"
           /\ FindById(todos, uinput'[p].id) = {})
          => /\ UNCHANGED dbVars
             /\ uret'[p].kind = "NotFound"
             /\ uret'[p].val = uinput'[p].id]_vars

\* a rename of user 1, deleted before, has answered NotFound
C15_Witness ==
  /\ resp.op = "user_update" /\ resp.id = 1 /\ resp.arg = "n2"
  /\ resp.kind = "NotFound"
  /\ FindById(users, 1) = {}

\* the members of a list answer
Members(s) == {s[i] : i \in DOMAIN s}

\* C16: the answer of list_for_user(U) holds each stored todo of user U once
\* and nothing else; the answer of list_for_user_by_status(U, S) holds each
\* stored todo of user U in status S once and nothing else.
C16_ListsAreExact ==
  /\ resp.op = "list_for_user" =>
       /\ Members(resp.rows) = {TodoFromRow(t) : t \in {r \in todos : r.user_id = resp.id}}
       /\ Len(resp.rows) = Cardinality({r \in todos : r.user_id = resp.id})
  /\ resp.op = "list_for_user_by_status" =>
       /\ Members(resp.rows) =
            {t \in {TodoFromRow(r) : r \in todos} :
               t.user_id = resp.id /\ t.status = resp.arg}
       /\ Len(resp.rows) =
            Cardinality({t \in {TodoFromRow(r) : r \in todos} :
                           t.user_id = resp.id /\ t.status = resp.arg})

\* the Completed list of user 1 is exactly todo 1, while todo 2 is stored too
C16_Witness ==
  /\ resp.op = "list_for_user_by_status" /\ resp.id = 1 /\ resp.arg = "Completed"
  /\ Len(resp.rows) = 1
  /\ resp.rows[1].id = 1 /\ resp.rows[1].status = "Completed"
  /\ FindById(todos, 2) # {}

\* the rows of the todos table other than the one of an id are the same
\* before and after a step
OthersUntouched(id) == {t \in todos : t.id # id} = {t \in todos' : t.id # id}

\* C17: update, start, complete and delete on a todo id leave every other
\* row of the todos table as it was, whoever owns it: same columns, same
\* updated_at, still there.
C17_OnlyTheAddressedRow ==
  [][/\ (resp = NoResp /\ resp'.op \in {"complete", "start", "todo_delete"})
          => OthersUntouched(resp'.id)
     /\ \A p \in Procs :
          (upc[p] # upc'[p] /\ upc[p] # "done") => OthersUntouched(uinput'[p].id)
     /\ \A p \in Procs :
          (upc[p] = "idle" /\ upc'[p] # "idle") => todos' = todos]_vars

\* todo 1 has got a new title from update and a new status since, todo 2 is
\* as it was created
C17_Witness ==
  /\ \E t \in FindById(todos, 1) : t.title = "t2" /\ t.status = AsStr("Completed")
  /\ \E owner \in {1, 2} : TodoCreateRow(2, owner, "t1", NoDesc, 0) \in todos
  /\ resp.op = "complete" /\ resp.id = 1 /\ resp.kind = "Ok"

\* the operations that answer a list
ListOps == {"user_list", "list_for_user", "list_for_user_by_status"}

\* C18: the answer of UserService::list, list_for_user and
\* list_for_user_by_status is in descending order of created_at, and the same
\* call made again on its own answer, no write in between, answers the same
\* sequence.
C18_ListOrderRepeatable ==
  /\ [](resp.op \in ListOps =>
          \A i, j \in DOMAIN resp.rows :
            i < j => resp.rows[i].created_at >= resp.rows[j].created_at)
  /\ [][(/\ resp.op \in ListOps /\ resp'.op = resp.op
         /\ resp'.id = resp.id /\ resp'.arg = resp.arg)
        => resp'.rows = resp.rows]_vars

\* the stored row of a user id, NoUser when there is none
StoredUser(tbl, id) ==
  IF FindById(tbl, id) = {} THEN NoUser ELSE CHOOSE u \in FindById(tbl, id) : TRUE

\* C19: UserService::update without a name writes nothing: it answers the
\* stored record of an existing user, name and updated_at as they are, or
\* NotFound for a missing id. With a name it sets the name (and updated_at)
\* of that user only and answers the row as updated.
C19_UserUpdate ==
  [][(resp = NoResp /\ resp'.op = "user_update")
       => LET id     == resp'.id
              before == StoredUser(users, id)
              after  == StoredUser(users', id)
          IN IF resp'.arg = NoName
               THEN /\ UNCHANGED <<dbVars, clock>>
                    /\ IF FindById(users, id) = {}
                         THEN resp'.kind = "NotFound"
                         ELSE resp'.kind = "Ok" /\ resp'.row = before
               ELSE FindById(users, id) # {} =>
                      /\ resp'.kind = "Ok"
                      /\ after = [before EXCEPT !.name = resp'.arg,
                                                !.updated_at = after.updated_at]
                      /\ resp'.row = after
                      /\ users' = (users \ {before}) \cup {after}
                      /\ UNCHANGED <<todos, jobs>>]_vars

\* an update without a name has answered the record of a user renamed
\* earlier, as it is stored
C19_Witness ==
  /\ resp.op = "user_update" /\ resp.arg = NoName /\ resp.kind = "Ok"
  /\ resp.row.name = "n2" /\ resp.row.updated_at = MaxClock
  /\ resp.row \in users
  /\ clock = MaxClock

\* C20: delete answers true exactly when it removed the row of the id, and
\* the row is gone for good: no row of that id, nor a user row of that email,
\* is stored afterwards; get on the id answers NotFound, get_by_email None,
\* the lists hold stored rows only, and another delete answers false.
C20_HardDelete ==
  /\ [][/\ (resp = NoResp /\ resp'.op = "user_delete" /\ resp'.kind = "Ok")
             => /\ resp'.flag = (FindById(users, resp'.id) # {})
                /\ users' = users \ FindById(users, resp'.id)
                /\ \A u \in FindById(users, resp'.id) : FindByEmail(users', u.email) = {}
        /\ (resp = NoResp /\ resp'.op = "todo_delete")
             => /\ resp'.kind = "Ok"
                /\ resp'.flag = (FindById(todos, resp'.id) # {})
                /\ todos' = todos \ FindById(todos, resp'.id)
        /\ \A id \in 1..nextUid : FindById(users, id) = {} => FindById(users', id) = {}
        /\ \A email \in {"e1", "e2"} :
             FindByEmail(users, email) = {} => FindByEmail(users', email) = {}
        /\ \A id \in 1..nextTid : FindById(todos, id) = {} => FindById(todos', id) = {}
       ]_vars
  /\ [](/\ (resp.op = "user_get" /\ FindById(users, resp.id) = {})
             => resp.kind = "NotFound"
        /\ (resp.op = "todo_get" /\ FindById(todos, resp.id) = {})
             => resp.kind = "NotFound"
        /\ (resp.op = "get_by_email" /\ FindByEmail(users, resp.arg) = {})
             => resp.kind = "None"
        /\ resp.op = "user_list" => Members(resp.rows) \subseteq users
        /\ resp.op \in {"list_for_user", "list_for_user_by_status"}
             => Members(resp.rows) \subseteq {TodoFromRow(t) : t \in todos}
        /\ (resp.op = "user_delete" /\ resp.kind = "Ok") => FindById(users, resp.id) = {}
        /\ resp.op = "todo_delete" => FindById(todos, resp.id) = {})

\* after the deletion of user 1, get_by_email of that user's email has
\* answered None
C20_Witness ==
  /\ resp.op = "get_by_email" /\ resp.arg = "e1" /\ resp.kind = "None"
  /\ FindById(users, 1) = {}
  /\ FindById(users, 2) # {}

\* C21: for an id that matches no row the queries user(id) and todo(id)
\* resolve to null without an error, the mutations updateUser, updateTodo,
\* startTodo and completeTodo resolve to an error, and deleteUser and
\* deleteTodo resolve to false.
C21_GraphqlMissingId ==
  /\ (resp.op = "user_get" /\ FindById(users, resp.id) = {})
       => QueryUser(resp) = GqlNull
  /\ (resp.op = "todo_get" /\ FindById(todos, resp.id) = {})
       => QueryTodo(resp) = GqlNull
  /\ (resp.op = "user_update" /\ FindById(users, resp.id) = {})
       => MutationUpdateUser(resp).error
  /\ (resp.op = "complete" /\ FindById(todos, resp.id) = {})
       => MutationCompleteTodo(resp).error
  /\ (resp.op = "start" /\ FindById(todos, resp.id) = {})
       => MutationStartTodo(resp).error
  /\ \A p \in Procs :
       (upc[p] = "done" /\ FindById(todos, uinput[p].id) = {})
         => MutationUpdateTodo(uret[p]).error
  /\ (resp.op = "user_delete" /\ resp.kind = "Ok" /\ ~resp.flag)
       => MutationDeleteUser(resp) = GqlValue(FALSE)
  /\ (resp.op = "todo_delete" /\ ~resp.flag)
       => MutationDeleteTodo(resp) = GqlValue(FALSE)

\* user(id) has resolved to null for the id of a deleted user
C21_Witness ==
  /\ resp.op = "user_get" /\ resp.id = 2 /\ resp.kind = "NotFound"
  /\ FindById(users, 2) = {}
  /\ QueryUser(resp) = GqlNull

\* C22: no status is guarded and none is final. Whatever the status of a
\* stored todo, an update call carrying any other status can be made and
\* takes the status branch; the write of that branch stores the carried
\* status, whatever the status was, and answers the todo in it.
C22_NoTransitionGuard ==
  /\ [](\A p \in Procs, t \in todos :
          (Quiet /\ upc[p] = "idle") =>
            \A target \in Statuses \ {FromStr(t.status)} :
              ENABLED (/\ TodoUpdateCall(p, t.id, NoTitle, NoDesc, target)
                       /\ upc'[p] = "status"))
  /\ [][\A p \in Procs :
          (/\ upc[p] = "status" /\ upc'[p] = "done"
           /\ FindById(todos, uinput[p].id) # {})
          => /\ StoredTodo(todos', uinput[p].id).status = AsStr(uinput[p].status)
             /\ uret'[p].kind = "Ok"
             /\ uret'[p].row.status = uinput[p].status]_vars

\* one update call has taken a todo from Completed back to Pending
C22_Witness ==
  \E p \in Procs :
    /\ upc[p] = "done" /\ uret[p].kind = "Ok"
    /\ existing[p].status = "Completed"
    /\ uinput[p].status = "Pending"
    /\ uret[p].row.status = "Pending"
    /\ StoredTodo(todos, uinput[p].id).status = AsStr("Pending")

\* C23: every stored user and todo has updated_at >= created_at; a write of
\* update_status or update_content to a stored row leaves its updated_at
\* strictly later than it was; no step changes the created_at of a row.
C23_TimestampsAdvance ==
  /\ [](/\ \A u \in users : u.updated_at >= u.created_at
        /\ \A t \in todos : t.updated_at >= t.created_at)
  /\ [][/\ \A p \in Procs :
             (/\ upc[p] \in {"update_status", "update_content"} /\ upc'[p] = "done"
              /\ FindById(todos, uinput[p].id) # {})
             => StoredTodo(todos', uinput[p].id).updated_at
                  > StoredTodo(todos, uinput[p].id).updated_at
        /\ \A t \in todos : \A r \in FindById(todos', t.id) : r.created_at = t.created_at
        /\ \A u \in users : \A r \in FindById(users', u.id) : r.created_at = u.created_at
       ]_vars

\* the user rows a step has rewritten
RewrittenUsers == {u \in users : FindById(users', u.id) \notin {{}, {u}}}

\* C24: every stored user has the id and email of its registration, the ones
\* its welcome-email job was made with; a step rewrites at most one user row,
\* and in it nothing but name and updated_at.
C24_EmailAndIdImmutable ==
  /\ [](\A u \in users : \E j \in JobsOfUser(jobs, u.id) : j.email = u.email)
  /\ [][/\ Cardinality(RewrittenUsers) <= 1
        /\ \A u \in RewrittenUsers :
             LET r == StoredUser(users', u.id)
             IN r = [u EXCEPT !.name = r.name, !.updated_at = r.updated_at]]_vars

\* two users are stored, one renamed since its registration and one not
C24_Witness ==
  /\ \E u \in users : \E j \in JobsOfUser(jobs, u.id) :
       j.name # u.name /\ j.email = u.email /\ u.updated_at > u.created_at
  /\ \E u \in users : \E j \in JobsOfUser(jobs, u.id) :
       j.name = u.name /\ u.updated_at = u.created_at

C27_NoLostUpdate ==
  [][\A p \in Procs :
       (/\ upc[p] = "content" /\ upc'[p] = "done"
        /\ FindById(todos, uinput[p].id) # {})
       => LET before == StoredTodo(todos, uinput[p].id)
              after  == StoredTodo(todos', uinput[p].id)
          IN /\ uinput[p].title = NoTitle => after.title = before.title
             /\ uinput[p].description = NoDesc =>
                  after.description = before.description]_vars

\* C28: when the todo an update has fetched is deleted before the update
\* writes, the write matches no row: the call fails with NotFound and the
\* todos table is as the delete left it. An update that has nothing to write
\* ends at its get and answers the record fetched there as a success,
\* whatever happens to the row afterwards.
C28_UpdateAfterDelete ==
  /\ [][\A p \in Procs :
          /\ (/\ upc[p] \in {"status", "content"} /\ upc'[p] = "done"
              /\ FindById(todos, uinput[p].id) = {})
             => /\ uret'[p].kind = "NotFound"
                /\ uret'[p].val = uinput[p].id
                /\ todos' = todos
          /\ (/\ upc[p] = "idle" /\ upc'[p] = "done"
              /\ FindById(todos, uinput'[p].id) # {})
             => /\ uret'[p].kind = "Ok"
                /\ uret'[p].row = existing'[p]
                /\ existing'[p] = TodoFromRow(StoredTodo(todos, uinput'[p].id))
                /\ todos' = todos]_vars
  /\ [](\A p \in Procs : upc[p] \in {"status", "content"} => existing[p].id = uinput[p].id)

\* an update that had fetched todo 1 has failed with NotFound, the todo
\* deleted in between and not stored again
C28_Witness ==
  \E p \in Procs :
    /\ upc[p] = "done" /\ uret[p].kind = "NotFound"
    /\ uinput[p].id = 1 /\ existing[p].id = 1
    /\ FindById(todos, 1) = {}

\* C29: every started register call ends, and at its end its transaction is
\* closed: on success the user and the job are committed together, on every
\* error nothing of the transaction is stored. An INSERT waits only on a
\* transaction that is itself past its INSERT, so no two registrations wait
\* on each other, and the wait ends when that transaction ends.
InFlight == {"begin", "create", "enqueue", "commit"}

Waiting(p) == pc[p] = "create" /\ EmailLocked(p, input[p].email)

C29_RegisterTerminates ==
  /\ \A p \in Procs : (pc[p] \in InFlight) ~> (pc[p] = "done")
  /\ \A p \in Procs : Waiting(p) ~> ~Waiting(p)
  /\ [](\A p \in Procs :
          /\ pc[p] \in {"idle", "done"} => tx[p] = NoTx
          /\ Waiting(p) => \E q \in Procs \ {p} :
                             /\ pc[q] \in {"enqueue", "commit"}
                             /\ ~Waiting(q)
                             /\ \E u \in tx[q].users : u.email = input[p].email)
  /\ [][\A p \in Procs :
          (pc[p] \in InFlight /\ pc'[p] = "done")
          => /\ tx'[p] = NoTx
             /\ IF ret'[p].kind = "Ok"
                  THEN /\ users' = users \cup tx[p].users
                       /\ jobs' = jobs (+) tx[p].jobs
                       /\ ret'[p].row \in users'
                  ELSE /\ users' = users
                       /\ jobs' = jobs]_vars

\* two registrations of one email have ended, one committed and one refused
\* by the unique index, and both transactions are closed
C29_Witness ==
  \E p \in Procs : \E q \in Procs \ {p} :
    /\ pc[p] = "done" /\ ret[p].kind = "Ok"
    /\ pc[q] = "done" /\ ret[q].val = "UniqueViolation"
    /\ input[p].email = input[q].email
    /\ tx[p] = NoTx /\ tx[q] = NoTx

\* C30: every welcome-email job in the queue carries the user_id of a user
\* row that currently exists, in every state reached by register, update and
\* delete calls, the job worker not running.
C30_NoOrphanedJob ==
  \A j \in BagToSet(jobs) : \E u \in users : u.id = j.user_id

====
